---- MODULE Spec2Model ----
(***************************************************************************)
(* silx.io.h5py_utils: the File wrapper that reference-counts open HDF5    *)
(* handles and toggles the process-wide HDF5_USE_FILE_LOCKING environment  *)
(* variable, and the retry decorator built on top of it.                   *)
(*                                                                         *)
(* Python values are written as strings: "None", "True", "False" for the   *)
(* three-valued flags, and the raw text of the environment variable        *)
(* ("None" when the variable is not set).                                  *)
(***************************************************************************)
EXTENDS Integers, Sequences, FiniteSets, TLC

VARIABLES
    env,        \* os.environ.get("HDF5_USE_FILE_LOCKING")
    _NOPEN,     \* File._NOPEN (class attribute)
    files,      \* the File instances constructed so far, in construction order
    HAS_SWMR,   \* module constant, fixed by the installed HDF5 library
    last,       \* history: the most recent File call and how it ended
    env0,       \* history: env just before the first handle of the current sequence opened
    lifo,       \* history: every close so far in the current sequence was last-opened-first
    now,        \* time.time(), in units of RETRY_PERIOD
    call,       \* the call of a retry-wrapped function in progress
    thr,        \* the threads of SpecThreads: where each is in File(...) or close()
    args,       \* history: the arguments of the File(...) call under study
    other,      \* the handle another process holds on the same file
    item        \* history: what the call of an item function read and yielded

vars == <<env, _NOPEN, files, HAS_SWMR, last, env0, lifo, now, call, thr,
          args, other, item>>

(***************************************************************************)
(* Bounds                                                                  *)
(***************************************************************************)
MaxFiles == 2       \* File instances one behaviour of Spec constructs
MaxAttempts == 3    \* iterations of the retry loop in one call
MaxTimeout == 1     \* largest timeout given to retry, in clock units
MaxItems == 2       \* children of the root group of the file

(***************************************************************************)
(* Value domains                                                           *)
(***************************************************************************)
\* raw values of the environment variable; "1" stands for any text other
\* than TRUE/FALSE that a user may have exported
EnvValues == {"None", "TRUE", "FALSE", "1"}
Tri == {"None", "True", "False"}
ValidModes == {"r", "w", "w-", "x", "a"}
\* the modes a caller passes here: omitted, two of the valid ones, one invalid
ModeArgs == {"None", "r", "a", "rw"}
\* outcome of h5py.File.__init__: success, or OSError with one of two messages
OpenOutcomes == {"ok", "already_open_for_write", "unable_to_lock"}

(***************************************************************************)
(* Helpers of class File                                                   *)
(***************************************************************************)
\* File._add_nopen: the new value of _NOPEN
_add_nopen(n, v) == IF n + v > 0 THEN n + v ELSE 0

\* File._get_locking_env: the three-valued reading of the raw variable
_get_locking_env(v) ==
    IF v = "TRUE" THEN "True"
    ELSE IF v = "None" THEN "None"
    ELSE "False"

\* (variant: the unset variable is backed up like any text other than TRUE)
_backup_locking_env_no_unset(v) == IF v = "TRUE" THEN "True" ELSE "False"

\* File._backup_locking_env: the value stored in self._HDF5_FILE_LOCKING
_backup_locking_env(v) ==
    IF v = "None" THEN "None"
    ELSE IF v = "TRUE" THEN "True" ELSE "False"

\* File._set_locking_env: the raw value of the variable after the call
_set_locking_env(enable) ==
    IF enable = "True" THEN "TRUE"
    ELSE IF enable = "None" THEN "None"
    ELSE "FALSE"

\* (variant: mode is passed on as given)
resolve_mode_as_given(mode) == mode

\* (variant: locking is off only for reads with swmr = False given)
resolve_locking_unless_swmr_false(enable_file_locking, mode, swmr) ==
    IF enable_file_locking = "None"
    THEN (IF mode = "r" /\ swmr = "False" THEN "False" ELSE "True")
    ELSE enable_file_locking

\* (variant: any OSError of a read with swmr = None triggers the fallback)
swmr_fallback_any_message(mode, swmr, outcome) ==
    mode = "r" /\ swmr = "None"

\* (variant: locking is off unless asked for)
resolve_locking_off_by_default(enable_file_locking, mode, swmr) ==
    IF enable_file_locking = "None" THEN "False" ELSE enable_file_locking

\* (variant: the fallback is triggered by the message of a held lock)
swmr_fallback_on_lock_message(mode, swmr, outcome) ==
    mode = "r" /\ swmr = "None" /\ outcome = "unable_to_lock"

\* (variant: only a request to enable locking is checked)
_check_locking_env_enabling_only(enable, v) ==
    enable = "True" /\ enable # _get_locking_env(v)

\* File._check_locking_env: TRUE when it raises RuntimeError
_check_locking_env(enable, v) == enable # _get_locking_env(v)

\* __init__, lines 204-207: mode defaults to "r"
resolve_mode(mode) == IF mode = "None" THEN "r" ELSE mode

\* __init__, lines 208-209
resolve_swmr(swmr, has_swmr) == IF ~has_swmr THEN "False" ELSE swmr

\* class attribute, line 184
_SWMR_LIBVER == "latest"

\* __init__, lines 218-219: if swmr and libver is None
resolve_libver(libver, swmr) ==
    IF swmr = "True" /\ libver = "None" THEN _SWMR_LIBVER ELSE libver

\* __init__, lines 242-243: the libver of the second underlying open
fallback_libver(libver) == IF libver = "None" THEN _SWMR_LIBVER ELSE libver

\* __init__, lines 211-212: bool(mode != "r" or swmr)
resolve_locking(enable_file_locking, mode, swmr) ==
    IF enable_file_locking = "None"
    THEN (IF mode # "r" \/ swmr = "True" THEN "True" ELSE "False")
    ELSE enable_file_locking

\* __init__, lines 235-239: the condition of the SWMR fallback
swmr_fallback(mode, swmr, outcome) ==
    mode = "r" /\ swmr = "None" /\ outcome = "already_open_for_write"

(***************************************************************************)
(* The state class File works on, as one record, so that a step made of    *)
(* several File calls can be composed                                      *)
(***************************************************************************)
Cur == [env |-> env, nopen |-> _NOPEN, files |-> files, last |-> last,
        env0 |-> env0, lifo |-> lifo]

Install(s) ==
    /\ env' = s.env
    /\ _NOPEN' = s.nopen
    /\ files' = s.files
    /\ last' = s.last
    /\ env0' = s.env0
    /\ lifo' = s.lifo

OpenSet(fs) == {i \in 1..Len(fs) : fs[i].open}
NumOpen(fs) == Cardinality(OpenSet(fs))
Newest(fs) == CHOOSE i \in OpenSet(fs) : \A j \in OpenSet(fs) : j <= i

\* last: op names the call, result how it ended ("ok" or the exception),
\* enable the resolved locking flag, nunder the number of h5py.File.__init__
\* calls made, wasopen whether the closed instance was open, nopen0 and envb
\* the values of _NOPEN and env when the call started, msg the message of
\* the OSError raised ("None": no OSError)
NoCall == [op |-> "none", result |-> "none", enable |-> "None",
           nunder |-> 0, wasopen |-> FALSE, nopen0 |-> 0, envb |-> "None",
           msg |-> "None"]

\* args before the call under study is made
NoArgs == [called |-> FALSE, mode |-> "None", enable_file_locking |-> "None",
           swmr |-> "None", o1 |-> "ok", o2 |-> "ok", swmrOK |-> TRUE,
           libver |-> "None", fallback |-> FALSE, swmr2 |-> "None",
           libver2 |-> "None"]

\* no other process holds the file
NoHandle == [held |-> FALSE, mode |-> "r", locking |-> FALSE, swmr |-> FALSE]

\* a File instance: open is the validity of the h5py handle,
\* _HDF5_FILE_LOCKING the attribute as read through self (the class default
\* None until the instance assigns it), nclose counts the close() calls
\* (history; 2 stands for two or more)
NewFile(backup) == [open |-> TRUE, _HDF5_FILE_LOCKING |-> backup, nclose |-> 0]

(***************************************************************************)
(* File.close                                                              *)
(***************************************************************************)
\* File._restore_locking_env, called on an instance whose restore point is b:
\* the raw value of the variable afterwards
_restore_locking_env(b) == _set_locking_env(b)

\* (variant: the restore is skipped)
CloseEffect_no_restore(n, e, b) == <<_add_nopen(n, -1), e>>

\* close() of an instance with restore point b, lines 264-267: <<_NOPEN, env>>
CloseEffect(n, e, b) ==
    LET n1 == _add_nopen(n, -1)
    IN  <<n1, IF n1 = 0 THEN _restore_locking_env(b) ELSE e>>

File_close(s, h) ==
    LET f  == s.files[h]
        ce == CloseEffect(s.nopen, s.env, f._HDF5_FILE_LOCKING)
    IN  [s EXCEPT
            !.nopen = ce[1],
            !.env = ce[2],
            !.files[h] = [open |-> FALSE,
                          _HDF5_FILE_LOCKING |->
                              IF ce[1] = 0 THEN "None" ELSE f._HDF5_FILE_LOCKING,
                          nclose |-> IF f.nclose < 2 THEN f.nclose + 1 ELSE 2],
            !.last = [op |-> "close", result |-> "ok", enable |-> "None",
                      nunder |-> 0, wasopen |-> f.open,
                      nopen0 |-> s.nopen, envb |-> s.env, msg |-> "None"],
            !.lifo = (s.lifo /\ (f.open => h = Newest(s.files)))]

\* (variant: the block is left without closing the handle)
File_exit_leak(s, h) == s

\* leaving "with File(...) as f": h5py's __exit__ closes a handle still valid
File_exit(s, h) == IF s.files[h].open THEN File_close(s, h) ELSE s

(***************************************************************************)
(* File.__init__                                                           *)
(***************************************************************************)
\* (variant: the requested setting is written before the check raises)
conflict_raised_after_write(s, r) ==
    [s EXCEPT !.last = r, !.env = _set_locking_env(r.enable)]

\* lines 213-214: _check_locking_env raises before anything is written;
\* r is the record of the call
conflict_raised(s, r) == [s EXCEPT !.last = r]

File_init(s, modeArg, eflArg, swmrArg, o1, o2, swmrOK) ==
    LET mode   == resolve_mode(modeArg)
        swmr   == resolve_swmr(swmrArg, HAS_SWMR)
        enable == resolve_locking(eflArg, mode, swmr)
        \* lines 213-216
        conflict == s.nopen # 0 /\ _check_locking_env(enable, s.env)
        env1   == IF s.nopen # 0 THEN s.env ELSE _set_locking_env(enable)
        backup == IF s.nopen # 0 THEN "None" ELSE _backup_locking_env(s.env)
        fb     == swmr_fallback(mode, swmr, o1)
        rec(res, nu) == [op |-> "open", result |-> res, enable |-> enable,
                         nunder |-> nu, wasopen |-> FALSE,
                         nopen0 |-> s.nopen, envb |-> s.env, msg |-> "None"]
        begin  == NumOpen(s.files) = 0
        opened(n, nu) ==
            [s EXCEPT !.nopen = n, !.env = env1,
                      !.files = Append(s.files, NewFile(backup)),
                      !.last = rec("ok", nu),
                      !.env0 = IF begin THEN s.env ELSE s.env0,
                      !.lifo = IF begin THEN TRUE ELSE s.lifo]
    IN
    IF mode \notin ValidModes THEN
        [s EXCEPT !.last = rec("ValueError", 0)]
    ELSE IF conflict THEN
        conflict_raised(s, rec("RuntimeError", 0))
    ELSE IF o1 = "ok" THEN
        IF mode # "r" /\ swmr = "True" /\ ~swmrOK THEN
            \* lines 250-257: counted, then closed again by the constructor
            LET ce == CloseEffect(_add_nopen(s.nopen, 1), env1, backup)
            IN  [s EXCEPT !.nopen = ce[1], !.env = ce[2], !.last = rec("SwmrError", 1)]
        ELSE
            opened(_add_nopen(s.nopen, 1), 1)
    ELSE IF fb /\ o2 = "ok" THEN
        \* lines 240-246: the handle is open; the else branch of the try, which
        \* holds _add_nopen(1), belongs to the first attempt only
        opened(s.nopen, 2)
    ELSE
        \* line 248 re-raises the first error; a failing second open (line
        \* 244) raises its own
        [s EXCEPT !.env = env1,
                  !.last = [rec("OSError", IF fb THEN 2 ELSE 1)
                                EXCEPT !.msg = IF fb THEN o2 ELSE o1]]

(***************************************************************************)
(* The retry decorator                                                     *)
(***************************************************************************)
\* what an attempt or the caller's block can raise; ValueError stands for
\* any exception no except clause of the wrapper names
Exceptions == {"OSError", "RuntimeError", "KeyError", "KeyError_doesnt_exist",
               "HDF5RetryError", "HDF5TimeoutError", "ValueError"}

\* (variant: the clause for OSError, a base class of HDF5TimeoutError, comes
\* first)
retryable_timeout_as_oserror(e) ==
    e \in {"HDF5RetryError", "OSError", "RuntimeError", "KeyError",
           "HDF5TimeoutError"}

\* the except clauses, lines 105-119: TRUE when the exception is kept and
\* the loop goes on, FALSE when it propagates
retryable(e) == e \in {"HDF5RetryError", "OSError", "RuntimeError", "KeyError"}

\* line 49, as one unit of the clock
RETRY_PERIOD == 1

\* (variant: the deadline itself already counts as exceeded)
timed_out_at_deadline(has_timeout, t, t0, timeout) ==
    has_timeout /\ (t - t0) >= timeout

\* (variant: the deadline test is true only one clock unit past the deadline)
timed_out_one_instant(has_timeout, t, t0, timeout) ==
    has_timeout /\ (t - t0) = timeout + 1

\* line 122
timed_out(has_timeout, t, t0, timeout) == has_timeout /\ (t - t0) > timeout

\* the call: pc is the place of the wrapper, context .. exception its
\* arguments and locals, f the File of the running attempt (0: none);
\* history: attempts and nfail count the passes through the try block and
\* those that raised, handed is the File given to the caller's block, thrown
\* whether the block raised into the generator, mvalue what the method
\* returned last, got and result what the caller received from the call
\* ("generator": a generator object), raised, raised_by and cause the
\* exception that ended the call, lasterr the exception that most recently
\* ended a pass through the try block, base, nopen_c and env_c the number
\* of File instances, _NOPEN and env when the call was made
Idle == [pc |-> "idle", context |-> FALSE, has_timeout |-> FALSE, timeout |-> 0,
         retry_period |-> 0, t0 |-> 0, exception |-> "None", attempts |-> 0,
         nfail |-> 0, f |-> 0, handed |-> 0, thrown |-> FALSE,
         mvalue |-> 0, got |-> "nothing", result |-> 0,
         raised |-> "None", raised_by |-> "none", cause |-> "None",
         lasterr |-> "None", base |-> 0, nopen_c |-> 0, env_c |-> "None"]

\* (variant: the first exception kept stays the one remembered)
Caught_keep_first(c, e, by) ==
    IF retryable(e)
    THEN [c EXCEPT !.pc = "wait",
                   !.exception = IF c.exception = "None" THEN e ELSE c.exception,
                   !.f = 0]
    ELSE [c EXCEPT !.pc = "raised", !.raised = e, !.raised_by = by, !.f = 0]

\* an exception e reaches the except clauses with the File state s
Caught(c, e, by) ==
    IF retryable(e)
    THEN [c EXCEPT !.pc = "wait", !.exception = e, !.f = 0]
    ELSE [c EXCEPT !.pc = "raised", !.raised = e, !.raised_by = by, !.f = 0]

\* (variant: the deadline is tested before the first attempt)
Start_deadline_first(c, t) ==
    IF c.has_timeout /\ c.timeout = 0
    THEN [c EXCEPT !.pc = "raised", !.t0 = t, !.raised = "HDF5TimeoutError",
                   !.raised_by = "engine"]
    ELSE [c EXCEPT !.pc = "loop", !.t0 = IF c.has_timeout THEN t ELSE 0]

\* calling the wrapped function: wrapper holds a yield, so the call builds a
\* generator; contextmanager (context = True) starts it on entering "with"
Start(c, t) ==
    [c EXCEPT !.pc = "loop", !.t0 = IF c.has_timeout THEN t ELSE 0]

RetryCall(context, has_timeout, timeout, retry_period) ==
    /\ call.pc = "idle"
    /\ LET c == [Idle EXCEPT !.context = context, !.has_timeout = has_timeout,
                             !.timeout = IF has_timeout THEN timeout ELSE 0,
                             !.retry_period = retry_period,
                             !.base = Len(files), !.nopen_c = _NOPEN,
                             !.env_c = env]
       IN  call' = IF context THEN Start(c, now)
                   ELSE [c EXCEPT !.pc = "generator", !.got = "generator"]
    /\ UNCHANGED <<env, _NOPEN, files, HAS_SWMR, last, env0, lifo, now, thr, args, other>>

\* the caller iterates the generator a context = False call returned,
\* d units after the call
GenNext(d) ==
    /\ call.pc = "generator"
    /\ call' = Start(call, now + d)
    /\ now' = now + d
    /\ UNCHANGED <<env, _NOPEN, files, HAS_SWMR, last, env0, lifo, thr, args, other, item>>

\* an instance no name refers to any more is dropped
Forget(s) == [s EXCEPT !.files = SubSeq(s.files, 1, Len(s.files) - 1)]

\* what the method returns in the n-th attempt (a stand-in: a value that
\* tells the attempts apart)
method_value(n) == n

\* one pass through the try block, lines 97-119, taking d units of time:
\* File(filename) with outcomes o1, o2, then the method, which raises m or
\* returns its value
Attempt(o1, o2, m, d) ==
    /\ call.pc = "loop"
    /\ call.attempts < MaxAttempts
    /\ \E s1 \in {File_init(Cur, "None", "None", "None", o1, o2, TRUE)} :
       LET h  == Len(files) + 1
           c  == [call EXCEPT !.attempts = @ + 1]
           v  == method_value(call.attempts + 1)
           failed(e) == Caught([c EXCEPT !.nfail = @ + 1, !.lasterr = e],
                               e, "operation")
       IN  IF s1.last.result # "ok" THEN
               /\ Install(s1)
               /\ call' = failed(s1.last.result)
           ELSE IF m # "ok" THEN
               /\ Install(Forget(File_exit(s1, h)))
               /\ call' = failed(m)
           ELSE IF ~call.context THEN
               \* line 104: return result, through the end of the with block
               /\ Install(Forget(File_exit(s1, h)))
               /\ call' = [c EXCEPT !.pc = "returned", !.mvalue = v,
                                    !.got = "StopIteration", !.result = v]
           ELSE IF call.thrown THEN
               \* a second yield after throw(): contextlib raises RuntimeError
               \* and the generator stays suspended inside the with block
               /\ Install(s1)
               /\ call' = [c EXCEPT !.pc = "raised", !.mvalue = v, !.f = h,
                                    !.raised = "RuntimeError",
                                    !.raised_by = "contextlib"]
           ELSE
               \* line 101: yield next(result)
               /\ Install(s1)
               /\ call' = [c EXCEPT !.pc = "block", !.mvalue = v,
                                    !.got = "value", !.result = v,
                                    !.f = h, !.handed = h]
    /\ now' = now + d
    /\ UNCHANGED <<HAS_SWMR, thr, args, other>>

\* lines 120-123: sleep (skipped when the period is negative), then the
\* deadline test
SleepCheck ==
    /\ call.pc = "wait"
    /\ now' = IF call.retry_period >= 0 THEN now + call.retry_period ELSE now
    /\ call' = IF timed_out(call.has_timeout, now', call.t0, call.timeout)
               THEN [call EXCEPT !.pc = "raised", !.raised = "HDF5TimeoutError",
                                 !.raised_by = "engine", !.cause = call.exception]
               ELSE [call EXCEPT !.pc = "loop"]
    /\ UNCHANGED <<env, _NOPEN, files, HAS_SWMR, last, env0, lifo, thr, args, other, item>>

\* the caller's with block ends, normally (e = "normal": the generator is
\* resumed and returns, line 102) or with exception e, which contextmanager
\* throws into the generator at the yield
BlockExit(e) ==
    /\ call.pc = "block"
    /\ Install(File_exit(Cur, call.f))
    /\ call' = IF e = "normal"
               THEN [call EXCEPT !.pc = "done", !.f = 0]
               ELSE Caught([call EXCEPT !.thrown = TRUE, !.lasterr = e],
                           e, "block")
    /\ UNCHANGED <<HAS_SWMR, now, thr, args, other, item>>

\* the suspended generator is finalised: GeneratorExit leaves the with block
Finalize ==
    /\ call.pc = "raised"
    /\ call.f # 0
    /\ Install(File_exit(Cur, call.f))
    /\ call' = [call EXCEPT !.f = 0]
    /\ UNCHANGED <<HAS_SWMR, now, thr, args, other, item>>

(***************************************************************************)
(* The item functions                                                      *)
(***************************************************************************)
\* what "end_time" in h5item does: it is True or False, or it raises
Contains == {"True", "False", "raises"}

\* an HDF5 item, as far as default_validate tells items apart
H5Items == [name : 1..MaxItems, contains : Contains]
NoItem == [name |-> 0, contains |-> "False"]

\* h5file[name] in open_item: it returns h5item (exc = "None") or raises
\* exc. absent tells why a lookup raised: "item" when the parent group is
\* there and the item is not (yet), "parent" when the parent group is
\* missing, "no" when the item is there and reading it failed. Which of the
\* two KeyError messages h5py gives in which case is not in the source.
NoLookup == [exc |-> "None", absent |-> "no", h5item |-> NoItem]
Lookups ==
    {[exc |-> "None", absent |-> "no", h5item |-> i] :
        i \in {x \in H5Items : x.name = 1}}
    \cup {[exc |-> e, absent |-> a, h5item |-> NoItem] :
            e \in {"KeyError", "KeyError_doesnt_exist"}, a \in {"item", "parent"}}
    \cup {[exc |-> "OSError", absent |-> "no", h5item |-> NoItem]}

\* the root group as one attempt finds it: the children in the order of
\* enumeration, and the exception the enumeration of line 149 raises
\* ("None": it completes); ValueError stands for any exception no except
\* clause of the wrapper names
Children(n) == {c \in [1..n -> H5Items] : \A k \in 1..n : c[k].name = k}
NoRoot == [exc |-> "None", children |-> <<>>]
Roots ==
    {[exc |-> e, children |-> c] :
        e \in {"None", "OSError", "KeyError", "KeyError_doesnt_exist",
               "ValueError"},
        c \in UNION {Children(n) : n \in 0..MaxItems}}

\* (variant: an item whose membership test raises counts as valid)
default_validate_true_on_error(h5item) == h5item.contains # "False"

\* lines 133-137
default_validate(h5item) == h5item.contains = "True"

\* validate is None or default_validate; None is not callable
callable(validate) == validate # "None"

\* line 151
RECURSIVE valid_items(_)
valid_items(h5items) ==
    IF h5items = <<>> THEN <<>>
    ELSE (IF default_validate(Head(h5items)) THEN <<Head(h5items)>> ELSE <<>>)
            \o valid_items(Tail(h5items))

\* (variant: a child that fails validation makes the attempt be retried)
open_top_level_items_all_valid(root, validate) ==
    IF root.exc # "None" THEN [raises |-> root.exc, h5items |-> <<>>]
    ELSE IF callable(validate)
            /\ valid_items(root.children) # root.children
    THEN [raises |-> "HDF5RetryError", h5items |-> <<>>]
    ELSE [raises |-> "ok", h5items |-> root.children]

\* lines 140-152: the exception the method raises ("ok": none) and the
\* list it yields
open_top_level_items(root, validate) ==
    IF root.exc # "None" THEN [raises |-> root.exc, h5items |-> <<>>]
    ELSE [raises |-> "ok",
          h5items |-> IF callable(validate) THEN valid_items(root.children)
                      ELSE root.children]

\* lines 155-168: the exception the method raises ("ok": none) and the
\* item it yields
open_item(look, validate) ==
    IF look.exc # "None" THEN [raises |-> look.exc, h5item |-> NoItem]
    ELSE IF callable(validate) /\ ~default_validate(look.h5item)
    THEN [raises |-> "HDF5RetryError", h5item |-> NoItem]
    ELSE [raises |-> "ok", h5item |-> look.h5item]

\* item before an item function is called: fn and validate are the function
\* and its validate argument, ran whether the method ran in the most recent
\* attempt, look and root what it found there, h5item and h5items what the
\* caller's block received
NoItems == [fn |-> "none", validate |-> "None", ran |-> FALSE,
            look |-> NoLookup, root |-> NoRoot,
            h5item |-> NoItem, h5items |-> <<>>]

\* open_item(filename, name, ...) or open_top_level_items(filename, ...):
\* both are wrapped by retry(timeout=None, context=True), lines 140 and 155
ItemCall(fn, validate, has_timeout, timeout) ==
    /\ RetryCall(TRUE, has_timeout, timeout, RETRY_PERIOD)
    /\ item' = [NoItems EXCEPT !.fn = fn, !.validate = validate]

\* File(filename) of an attempt, with outcome o1 of the underlying open,
\* succeeds
file_opens(o1) ==
    File_init(Cur, "None", "None", "None", o1, "ok", TRUE).last.result = "ok"

\* one attempt of the call: File(filename) with outcome o1, then the method
\* on what the file holds at that time
ItemAttempt(o1, look, root, d) ==
    /\ item.fn # "none"
    /\ LET r1 == open_item(look, item.validate)
           r2 == open_top_level_items(root, item.validate)
           m  == IF item.fn = "open_item" THEN r1.raises ELSE r2.raises
       IN  /\ Attempt(o1, "ok", m, d)
           \* the method ran unless the attempt ended in a failed File(...)
           /\ \E ran \in {~(last'.op = "open" /\ last'.result # "ok")} :
            \* the file is read only when it could be opened, and only by
            \* the function called
            /\ IF ran /\ item.fn = "open_item" THEN look \in Lookups
               ELSE look = NoLookup
            /\ IF ran /\ item.fn = "open_top_level_items" THEN root \in Roots
               ELSE root = NoRoot
            /\ item' = [item EXCEPT
                    !.ran = ran, !.look = look, !.root = root,
                    !.h5item = IF call'.pc = "block" /\ item.fn = "open_item"
                               THEN r1.h5item ELSE @,
                    !.h5items = IF call'.pc = "block" /\ item.fn # "open_item"
                                THEN r2.h5items ELSE @]

(***************************************************************************)
(* File(...) and close() called directly                                   *)
(***************************************************************************)
FileInit(modeArg, eflArg, swmrArg, o1, o2, swmrOK) ==
    /\ Install(File_init(Cur, modeArg, eflArg, swmrArg, o1, o2, swmrOK))
    /\ UNCHANGED <<HAS_SWMR, now, call, thr, args, other, item>>

FileClose(h) ==
    /\ h \in 1..Len(files)
    /\ Install(File_close(Cur, h))
    /\ UNCHANGED <<HAS_SWMR, now, call, thr, args, other, item>>

\* File(...) as the call under study: its arguments are remembered
FileInitArgs(modeArg, eflArg, swmrArg, libverArg, o1, o2, swmrOK) ==
    /\ Install(File_init(Cur, modeArg, eflArg, swmrArg, o1, o2, swmrOK))
    /\ LET libver == resolve_libver(libverArg, resolve_swmr(swmrArg, HAS_SWMR))
           \* the second underlying open (lines 241-246) was made
           second == last'.op = "open" /\ last'.nunder = 2
       IN  args' = [called |-> TRUE, mode |-> modeArg,
                    enable_file_locking |-> eflArg, swmr |-> swmrArg,
                    o1 |-> o1, o2 |-> o2, swmrOK |-> swmrOK,
                    libver |-> libverArg, fallback |-> second,
                    swmr2 |-> IF second THEN "True" ELSE "None",
                    libver2 |-> IF second THEN fallback_libver(libver)
                                ELSE "None"]
    /\ UNCHANGED <<HAS_SWMR, now, call, thr, other, item>>

(***************************************************************************)
(* File(...) and close() step by step, for threads that interleave         *)
(***************************************************************************)
Threads == {1, 2}
\* n is the value of _NOPEN a thread read in _add_nopen and has not yet
\* written back
NoThreads == [t \in Threads |-> [pc |-> "start", h |-> 0, enable |-> "None",
                                 n |-> 0]]

Goto(t, pc) == thr' = [thr EXCEPT ![t].pc = pc]

\* line 213: the instance exists, its mode and flags are resolved, and
\* self._NOPEN is read
T_ReadCounter(t, modeArg) ==
    /\ thr[t].pc = "start"
    /\ files' = Append(files, [NewFile("None") EXCEPT !.open = FALSE])
    /\ thr' = [thr EXCEPT ![t] =
                [pc |-> IF _NOPEN # 0 THEN "check" ELSE "backup",
                 h |-> Len(files) + 1,
                 enable |-> resolve_locking("None", resolve_mode(modeArg),
                                            resolve_swmr("None", HAS_SWMR)),
                 n |-> 0]]
    /\ UNCHANGED <<env, _NOPEN, HAS_SWMR, last, env0, lifo, now, call, args, other, item>>

\* line 214
T_Check(t) ==
    /\ thr[t].pc = "check"
    /\ Goto(t, IF _check_locking_env(thr[t].enable, env) THEN "done" ELSE "open")
    /\ UNCHANGED <<env, _NOPEN, files, HAS_SWMR, last, env0, lifo, now, call, args, other, item>>

\* line 270
T_Backup(t) ==
    /\ thr[t].pc = "backup"
    /\ files' = [files EXCEPT ![thr[t].h]._HDF5_FILE_LOCKING = _backup_locking_env(env)]
    /\ Goto(t, "set")
    /\ UNCHANGED <<env, _NOPEN, HAS_SWMR, last, env0, lifo, now, call, args, other, item>>

\* lines 271-279
T_Set(t) ==
    /\ thr[t].pc = "set"
    /\ env' = _set_locking_env(thr[t].enable)
    /\ Goto(t, "open")
    /\ UNCHANGED <<_NOPEN, files, HAS_SWMR, last, env0, lifo, now, call, args, other, item>>

\* line 224, succeeding
T_UnderlyingOpen(t) ==
    /\ thr[t].pc = "open"
    /\ files' = [files EXCEPT ![thr[t].h].open = TRUE]
    /\ Goto(t, "incr")
    /\ UNCHANGED <<env, _NOPEN, HAS_SWMR, last, env0, lifo, now, call, args, other, item>>

\* line 250 calls _add_nopen(1); line 261 reads cls._NOPEN here and
\* assigns it in a later step, and the other thread can run in between
T_Increment(t) ==
    /\ thr[t].pc = "incr"
    /\ thr' = [thr EXCEPT ![t].pc = "incr_write", ![t].n = _NOPEN]
    /\ UNCHANGED <<env, _NOPEN, files, HAS_SWMR, last, env0, lifo, now, call, args, other, item>>

\* line 261: cls._NOPEN = max(<the value read> + 1, 0)
T_IncrementWrite(t) ==
    /\ thr[t].pc = "incr_write"
    /\ _NOPEN' = _add_nopen(thr[t].n, 1)
    /\ thr' = [thr EXCEPT ![t].pc = "opened", ![t].n = 0]
    /\ UNCHANGED <<env, files, HAS_SWMR, last, env0, lifo, now, call, args, other, item>>

\* line 264
T_UnderlyingClose(t) ==
    /\ thr[t].pc = "opened"
    /\ files' = [files EXCEPT ![thr[t].h].open = FALSE, ![thr[t].h].nclose = 1]
    /\ Goto(t, "decr")
    /\ UNCHANGED <<env, _NOPEN, HAS_SWMR, last, env0, lifo, now, call, args, other, item>>

\* line 265 calls _add_nopen(-1); the read of line 261, as in T_Increment
T_Decrement(t) ==
    /\ thr[t].pc = "decr"
    /\ thr' = [thr EXCEPT ![t].pc = "decr_write", ![t].n = _NOPEN]
    /\ UNCHANGED <<env, _NOPEN, files, HAS_SWMR, last, env0, lifo, now, call, args, other, item>>

\* line 261: cls._NOPEN = max(<the value read> - 1, 0)
T_DecrementWrite(t) ==
    /\ thr[t].pc = "decr_write"
    /\ _NOPEN' = _add_nopen(thr[t].n, -1)
    /\ thr' = [thr EXCEPT ![t].pc = "test", ![t].n = 0]
    /\ UNCHANGED <<env, files, HAS_SWMR, last, env0, lifo, now, call, args, other, item>>

\* line 266
T_TestZero(t) ==
    /\ thr[t].pc = "test"
    /\ Goto(t, IF _NOPEN = 0 THEN "restore" ELSE "done")
    /\ UNCHANGED <<env, _NOPEN, files, HAS_SWMR, last, env0, lifo, now, call, args, other, item>>

\* line 267
T_Restore(t) ==
    /\ thr[t].pc = "restore"
    /\ env' = _restore_locking_env(files[thr[t].h]._HDF5_FILE_LOCKING)
    /\ files' = [files EXCEPT ![thr[t].h]._HDF5_FILE_LOCKING = "None"]
    /\ Goto(t, "done")
    /\ UNCHANGED <<_NOPEN, HAS_SWMR, last, env0, lifo, now, call, args, other, item>>

(***************************************************************************)
(* Spec: one process calling File(...) and close() in any order            *)
(***************************************************************************)
Init ==
    /\ env \in EnvValues
    /\ _NOPEN = 0
    /\ files = <<>>
    /\ HAS_SWMR \in BOOLEAN
    /\ last = NoCall
    /\ env0 = env
    /\ lifo = TRUE
    /\ now = 0
    /\ call = Idle
    /\ thr = NoThreads
    /\ args = NoArgs
    /\ other = NoHandle
    /\ item = NoItems

Open ==
    /\ Len(files) < MaxFiles
    /\ \E modeArg \in ModeArgs, eflArg \in Tri, swmrArg \in Tri, o1 \in OpenOutcomes :
        \* o2 is read only after a first failure, swmrOK only after a success
        \E o2 \in (IF o1 = "ok" THEN {"ok"} ELSE {"ok", "unable_to_lock"}),
           swmrOK \in (IF o1 = "ok" THEN BOOLEAN ELSE {TRUE}) :
            FileInit(modeArg, eflArg, swmrArg, o1, o2, swmrOK)

Close == \E h \in 1..Len(files) : FileClose(h)

Next == Open \/ Close

Spec == Init /\ [][Next]_vars

(***************************************************************************)
(* SpecRetry: one call of a retry-wrapped function, made while the caller  *)
(* holds no handle or one handle of its own                                *)
(***************************************************************************)
InitRetry ==
    /\ env \in EnvValues
    /\ _NOPEN = 0
    /\ files = <<>>
    /\ HAS_SWMR = TRUE
    /\ last = NoCall
    /\ env0 = env
    /\ lifo = TRUE
    /\ now = 0
    /\ call = Idle
    /\ thr = NoThreads
    /\ args = NoArgs
    /\ other = NoHandle
    /\ item = NoItems

UserOpen ==
    /\ call.pc = "idle"
    /\ Len(files) = 0
    /\ \E modeArg \in {"r", "a"} : FileInit(modeArg, "None", "None", "ok", "ok", TRUE)

Call ==
    \E context \in BOOLEAN, has_timeout \in BOOLEAN, timeout \in 0..MaxTimeout,
       retry_period \in {-1, RETRY_PERIOD} :
        /\ has_timeout \/ timeout = 0
        /\ RetryCall(context, has_timeout, timeout, retry_period)
        /\ UNCHANGED item

Iterate == \E d \in {0, 1} : GenNext(d)

Try ==
    \E o1 \in OpenOutcomes, m \in {"ok"} \cup Exceptions :
        \* o2 is read only after a first failure, the clock only with a timeout
        \E o2 \in (IF o1 = "ok" THEN {"ok"} ELSE {"ok", "unable_to_lock"}),
           d \in (IF call.has_timeout THEN {0, 1} ELSE {1}) :
            Attempt(o1, o2, m, d) /\ UNCHANGED item

Leave == \E e \in {"normal"} \cup Exceptions : BlockExit(e)

NextRetry == UserOpen \/ Call \/ Iterate \/ Try \/ SleepCheck \/ Leave \/ Finalize

SpecRetry == InitRetry /\ [][NextRetry]_vars

(***************************************************************************)
(* SpecOpen: one File(...) call with any arguments and any outcome of the   *)
(* underlying opens, made while the process holds no handle or one handle   *)
(***************************************************************************)
\* every valid mode, the omitted mode and an invalid one
AllModeArgs == ValidModes \cup {"None", "rw"}

\* the omitted version bound and two explicit ones
LibverArgs == {"None", "latest", "earliest"}

Held == ~args.called /\ UserOpen

Construct ==
    /\ ~args.called
    /\ \E modeArg \in AllModeArgs, eflArg \in Tri, swmrArg \in Tri,
          libverArg \in LibverArgs, o1 \in OpenOutcomes :
        \* o2 is read only after a first failure, swmrOK only after a success
        \E o2 \in (IF o1 = "ok" THEN {"ok"} ELSE OpenOutcomes),
           swmrOK \in (IF o1 = "ok" THEN BOOLEAN ELSE {TRUE}) :
            \* the consistency flags behind "file is already open for
            \* write" exist only in HDF5 versions that have SWMR
            /\ (o1 = "already_open_for_write" \/ o2 = "already_open_for_write")
                    => HAS_SWMR
            /\ FileInitArgs(modeArg, eflArg, swmrArg, libverArg,
                            o1, o2, swmrOK)

NextOpen == Held \/ Construct

SpecOpen == Init /\ [][NextOpen]_vars

(***************************************************************************)
(* SpecProcesses: another process holds the file while this process, which  *)
(* holds nothing, opens it with File(...) and closes it again               *)
(***************************************************************************)
\* what h5py.File.__init__ can do in this process while the other process
\* holds the file: the table in the except clause of File.__init__ for a
\* reader against a writer, the expectations of test_modes_multi_process and
\* test_modes_multi_process_swmr otherwise; where these give no message,
\* either one
underlying_outcomes(o, mode, locking, swmr) ==
    IF ~o.held THEN {"ok"}
    ELSE IF mode = "r" THEN
        IF o.mode = "r" THEN {"ok"}
        ELSE IF o.swmr
             THEN (IF swmr = "True" THEN {"ok"} ELSE {"already_open_for_write"})
             ELSE (IF locking THEN {"unable_to_lock"} ELSE {"ok"})
    ELSE
        IF o.mode = "r"
        THEN (IF o.locking /\ locking THEN {"unable_to_lock"} ELSE {"ok"})
        ELSE {"unable_to_lock", "already_open_for_write"}

\* the other process opens the file with File(...): a writer or a reader
\* with default locking, or a reader that asks for locking
OtherOpens ==
    /\ ~other.held /\ ~args.called
    /\ \E modeArg \in {"r", "w", "a"}, eflArg \in {"None", "True"},
          swmrArg \in {"None", "True"} :
        LET mode == resolve_mode(modeArg)
            swmr == resolve_swmr(swmrArg, HAS_SWMR)
        IN  /\ mode # "r" => eflArg = "None"
            /\ mode = "r" => swmrArg = "None"
            /\ other' = [held |-> TRUE, mode |-> mode,
                         locking |-> resolve_locking(eflArg, mode, swmr) = "True",
                         \* line 252: a writer with swmr enters SWMR mode
                         swmr |-> (mode # "r" /\ swmr = "True")]
    /\ UNCHANGED <<env, _NOPEN, files, HAS_SWMR, last, env0, lifo, now, call,
                   thr, args, item>>

\* this process opens the file: a read with any swmr and default or
\* requested locking, or an append with default options
LocalOpen ==
    /\ ~args.called /\ Len(files) = 0
    /\ \E modeArg \in {"None", "r", "a"}, eflArg \in {"None", "True"},
          swmrArg \in Tri :
        LET mode    == resolve_mode(modeArg)
            swmr    == resolve_swmr(swmrArg, HAS_SWMR)
            locking == resolve_locking(eflArg, mode, swmr) = "True"
        IN  /\ mode # "r" => (eflArg = "None" /\ swmrArg = "None")
            /\ \E o1 \in underlying_outcomes(other, mode, locking, swmr),
                  o2 \in underlying_outcomes(other, mode, locking, "True") :
                    FileInitArgs(modeArg, eflArg, swmrArg, "None", o1, o2, TRUE)

LocalClose ==
    /\ args.called
    /\ \E h \in 1..Len(files) : files[h].open /\ FileClose(h)

NextProcesses == OtherOpens \/ LocalOpen \/ LocalClose

SpecProcesses == Init /\ [][NextProcesses]_vars

(***************************************************************************)
(* SpecItems: one call of open_item or open_top_level_items on a file that  *)
(* a writer changes between the attempts                                    *)
(***************************************************************************)
CallItem ==
    \E fn \in {"open_item", "open_top_level_items"},
       validate \in {"None", "default_validate"},
       has_timeout \in BOOLEAN, timeout \in 0..MaxTimeout :
        /\ has_timeout \/ timeout = 0
        /\ ItemCall(fn, validate, has_timeout, timeout)

TryItem ==
    \E o1 \in {"ok", "unable_to_lock"} :
        \E ran \in {file_opens(o1)} :
            \E look \in (IF ran /\ item.fn = "open_item" THEN Lookups
                         ELSE {NoLookup}),
               root \in (IF ran /\ item.fn = "open_top_level_items" THEN Roots
                         ELSE {NoRoot}) :
                ItemAttempt(o1, look, root, 0)

LeaveNormally == BlockExit("normal")

NextItems == CallItem \/ TryItem \/ SleepCheck \/ LeaveNormally

SpecItems == InitRetry /\ [][NextItems]_vars

(***************************************************************************)
(* SpecTimeout: a call with a timeout and a non-negative retry period whose *)
(* every attempt fails retryably, under a clock that advances in every      *)
(* iteration of the loop; the thread running the loop keeps running         *)
(***************************************************************************)
CallWithTimeout ==
    \E context \in BOOLEAN, timeout \in 0..MaxTimeout,
       retry_period \in {0, RETRY_PERIOD} :
        RetryCall(context, TRUE, timeout, retry_period) /\ UNCHANGED item

TryFailing ==
    \E o1 \in OpenOutcomes, o2 \in {"ok", "unable_to_lock"},
       m \in {e \in Exceptions : retryable(e)}, d \in {0, 1} :
        /\ o1 = "ok" => o2 = "ok"
        \* the attempt and the sleep together take time
        /\ d + call.retry_period >= 1
        /\ Attempt(o1, o2, m, d)
        /\ UNCHANGED item

NextTimeout == UserOpen \/ CallWithTimeout \/ Iterate \/ TryFailing \/ SleepCheck

SpecTimeout ==
    InitRetry /\ [][NextTimeout]_vars /\ WF_vars(TryFailing) /\ WF_vars(SleepCheck)

(***************************************************************************)
(* SpecThreads: two threads of one process, each opening one File and      *)
(* closing it, their steps interleaved in every way                        *)
(***************************************************************************)
NextThreads ==
    \E t \in Threads :
        \/ \E modeArg \in {"r", "a"} : T_ReadCounter(t, modeArg)
        \/ T_Check(t)
        \/ T_Backup(t)
        \/ T_Set(t)
        \/ T_UnderlyingOpen(t)
        \/ T_Increment(t)
        \/ T_IncrementWrite(t)
        \/ T_UnderlyingClose(t)
        \/ T_Decrement(t)
        \/ T_DecrementWrite(t)
        \/ T_TestZero(t)
        \/ T_Restore(t)

SpecThreads == Init /\ [][NextThreads]_vars

(***************************************************************************)
(* Properties of the open counter and the ambient locking setting          *)
(***************************************************************************)
\* the ambient setting is back at the value it had before the sequence:
\* the same text when that was unset, TRUE or FALSE, and the same
\* three-valued reading in any case
EnvRestored ==
    /\ (env0 \in {"None", "TRUE", "FALSE"} => env = env0)
    /\ _get_locking_env(env) = _get_locking_env(env0)

\* C1: the open counter equals the number of handles that are open (and so
\* is never negative), whatever opens and closes were made.
C1_CounterEqualsOpenHandles == _NOPEN = NumOpen(files)

\* C2: while a handle is open before and after a call, the call leaves the
\* ambient locking setting as it is.
C2_SettingKeptWhileOpen ==
    [][(NumOpen(files) > 0 /\ NumOpen(files') > 0) => env' = env]_vars

\* C3: an open requested while the counter is positive fails with the
\* conflict error (before any underlying open) when the resolved flag
\* differs from the active setting, and otherwise proceeds to the underlying
\* open with the setting untouched.
C3_ConflictIffDiffers ==
    (last.op = "open" /\ last.result # "ValueError" /\ last.nopen0 > 0) =>
        IF last.enable # _get_locking_env(last.envb)
        THEN last.result = "RuntimeError" /\ last.nunder = 0
        ELSE last.result # "RuntimeError" /\ last.nunder >= 1 /\ env = last.envb

C3_Witness ==
    /\ last.op = "open" /\ last.nopen0 > 0
    /\ last.result = "RuntimeError"
    /\ last.enable = "True" /\ _get_locking_env(last.envb) = "False"

\* C4: after properly nested opens and closes, once the outermost handle is
\* closed the ambient setting is the one from before the first open.
C4_NestedRestore ==
    (last.op = "close" /\ last.wasopen /\ NumOpen(files) = 0 /\ lifo) => EnvRestored

C4_Witness ==
    /\ last.op = "close" /\ last.wasopen /\ NumOpen(files) = 0 /\ lifo
    /\ Len(files) >= 2 /\ env0 = "TRUE" /\ last.envb = "FALSE"

\* C5: when a close brings the counter to zero, the ambient setting is the
\* one from before the first open, whichever handle is closed last.
C5_RestoreAnyOrder ==
    (last.op = "close" /\ last.wasopen /\ _NOPEN = 0 /\ NumOpen(files) = 0)
        => EnvRestored

\* C6: a second close of the same handle changes neither the counter nor the
\* ambient setting.
C6_CloseIdempotent ==
    (last.op = "close" /\ ~last.wasopen) =>
        (_NOPEN = last.nopen0 /\ env = last.envb)

(***************************************************************************)
(* Properties of the retry decorator                                       *)
(***************************************************************************)
\* C7: once the caller's block of a scoped call is left, normally or by an
\* exception, the handle it was given has been closed exactly once.
C7_HandedClosedOnce ==
    (call.handed # 0 /\ call.pc # "block") =>
        (files[call.handed].nclose = 1 /\ ~files[call.handed].open)

C7_Witness ==
    /\ call.handed # 0 /\ call.thrown /\ call.pc = "wait"
    /\ call.exception = "KeyError"
    /\ files[call.handed].nclose = 1

\* C8: when both threads have finished, the counter equals the number of
\* open handles (none) and the ambient setting is the one from before the
\* first open.
C8_ThreadsKeepLockingState ==
    (\A t \in Threads : thr[t].pc = "done") =>
        (_NOPEN = NumOpen(files) /\ EnvRestored)

\* C9: a call without timeout has, when it hands its result to the caller,
\* invoked the operation once more than the number of failed attempts, the
\* result is the value of that last attempt, and it never raises the
\* timeout error.
C9_ExactlyNAttempts ==
    ~call.has_timeout =>
        /\ call.raised_by # "engine"
        /\ call.pc \in {"generator", "block", "returned"} =>
              /\ call.attempts = call.nfail + 1
              /\ call.got = "value"
              /\ call.result = method_value(call.attempts)

\* C10: the timeout error is raised by the retry loop only with a timeout
\* set and more than that time elapsed since the start of the call.
C10_TimeoutOnlyAfterT ==
    call.raised_by = "engine" =>
        (call.has_timeout /\ now - call.t0 > call.timeout)

C10_Witness ==
    /\ call.raised_by = "engine" /\ call.raised = "HDF5TimeoutError"
    /\ call.timeout = MaxTimeout
    /\ call.attempts >= 2 /\ call.nfail = call.attempts

\* the retry loop, once it runs, eventually ends by raising the timeout
\* error (under the conditions of SpecTimeout)
LoopEventuallyTimesOut ==
    (call.pc = "loop") ~>
        (call.pc = "raised" /\ call.raised = "HDF5TimeoutError"
            /\ call.raised_by = "engine")

\* C11: with a timeout set, a non-negative retry period, an advancing clock
\* and every attempt failing retryably, every call of a retry-wrapped
\* function eventually ends by raising the timeout error.
C11_EventuallyTimeout ==
    (call.pc # "idle") ~>
        (call.pc = "raised" /\ call.raised = "HDF5TimeoutError"
            /\ call.raised_by = "engine")

C11_Witness ==
    /\ call.pc = "raised" /\ call.raised = "HDF5TimeoutError"
    /\ call.raised_by = "engine"
    /\ call.retry_period = 0 /\ call.timeout = MaxTimeout
    /\ call.attempts = MaxTimeout + 1

\* C12: the cause attached to the timeout error raised by the retry loop is
\* the retryable error that ended the most recent pass through the try
\* block, and is never absent.
C12_CauseIsLastError ==
    call.raised_by = "engine" =>
        /\ call.cause # "None"
        /\ retryable(call.cause)
        /\ call.cause = call.lasterr

C12_Witness ==
    /\ call.raised_by = "engine" /\ call.nfail >= 2
    /\ call.cause = "KeyError" /\ last.op = "close"

\* C13: an attempt that fails with KeyError "doesn't exist" or with
\* HDF5TimeoutError ends the call with that same error in the same step: no
\* sleep, no further attempt, no conversion, with or without a deadline and
\* whether or not the deadline is exceeded.
C13_ImmediatePropagation ==
    [][/\ (call.pc = "loop" /\ call'.nfail = call.nfail + 1
            /\ call'.lasterr \in {"KeyError_doesnt_exist", "HDF5TimeoutError"})
          => (/\ call'.pc = "raised"
              /\ call'.raised = call'.lasterr
              /\ call'.raised_by = "operation"
              /\ call'.cause = "None")
       \* once raised, the call neither sleeps nor tries again
       /\ call.pc = "raised"
          => (/\ call'.pc = "raised" /\ call'.raised = call.raised
              /\ call'.attempts = call.attempts /\ now' = now)]_vars

C13_Witness ==
    /\ call.pc = "raised" /\ call.raised = "HDF5TimeoutError"
    /\ call.raised_by = "operation"
    /\ call.has_timeout /\ now - call.t0 > call.timeout
    /\ call.nfail >= 2

\* C14: inside a retry call, an open that fails with the locking conflict
\* error ends the call at once with that same RuntimeError: it is not kept as
\* retryable, not retried and not turned into a timeout error.
C14_ConflictIsFatal ==
    (call.pc # "idle" /\ last.op = "open" /\ last.result = "RuntimeError") =>
        (call.pc = "raised" /\ call.raised = "RuntimeError"
            /\ call.raised_by = "operation")

(***************************************************************************)
(* Properties of File.__init__                                             *)
(***************************************************************************)
\* C15 (as stated): with no locking flag given, the effective flag is true
\* unless mode is read and swmr is False as given, and then false; so true
\* for mode read with swmr left unspecified.
C15_DefaultLockingAsStated ==
    (args.called /\ args.enable_file_locking = "None"
        /\ last.result # "ValueError") =>
        last.enable = IF args.mode \in {"None", "r"} /\ args.swmr = "False"
                      THEN "False" ELSE "True"

\* C15 (amended): with no locking flag given, the effective flag is true
\* when mode is not read or swmr = True is given and supported, and false
\* otherwise; so false for mode read with swmr left unspecified.
C15_DefaultLocking ==
    (args.called /\ args.enable_file_locking = "None"
        /\ last.result # "ValueError") =>
        last.enable = IF args.mode \in {"w", "w-", "x", "a"}
                         \/ (args.swmr = "True" /\ HAS_SWMR)
                      THEN "True" ELSE "False"

C15_Witness ==
    /\ args.called /\ args.enable_file_locking = "None"
    /\ args.mode = "r" /\ args.swmr = "None" /\ HAS_SWMR
    /\ last.result = "ok" /\ last.enable = "False" /\ env = "FALSE"

\* C16: a second underlying open is made exactly when the first fails with
\* "file is already open for write", mode is read and swmr was left
\* unspecified; never a third; any other failure of the first open
\* propagates as it is.
C16_FallbackIff ==
    (args.called /\ last.nunder >= 1) =>
        /\ last.nunder <= 2
        /\ last.nunder = 2 <=>
              (/\ args.o1 = "already_open_for_write"
               /\ args.mode \in {"None", "r"}
               /\ args.swmr = "None")
        /\ (args.o1 # "ok" /\ last.nunder = 1) =>
              (last.result = "OSError" /\ last.msg = args.o1)

C16_Witness ==
    /\ args.called /\ last.nunder = 2 /\ last.result = "OSError"
    /\ args.o2 = "already_open_for_write"

\* C19: when enabling the writer's SWMR mode fails after a successful open,
\* the constructor leaves no handle open, the counter is the one from before
\* the call, the ambient setting is the one from before the call when that
\* counter is zero (and untouched otherwise), and the error propagates.
C19_SwmrFailureUndone ==
    [][(last'.op = "open" /\ last'.result = "SwmrError") =>
        /\ _NOPEN' = _NOPEN
        /\ files' = files
        /\ _NOPEN = 0 =>
              /\ env \in {"None", "TRUE", "FALSE"} => env' = env
              /\ _get_locking_env(env') = _get_locking_env(env)
        /\ _NOPEN # 0 => env' = env]_vars

C19_Witness ==
    /\ last.op = "open" /\ last.result = "SwmrError"
    /\ last.nopen0 = 0 /\ last.envb = "FALSE" /\ env = "FALSE"
    /\ last.enable = "True"

\* C20: File(...) raises ValueError exactly when a mode other than r, w, w-,
\* x, a is given; an omitted mode acts as r; a call that raises ValueError
\* makes no underlying open and leaves the counter, the ambient setting and
\* every restore point as they were.
C20_InvalidMode ==
    [][/\ args'.called =>
            (last'.result = "ValueError"
                <=> args'.mode \notin {"None", "r", "w", "w-", "x", "a"})
       /\ (args'.called /\ args'.mode = "None") =>
            Cur' = File_init(Cur, "r", args'.enable_file_locking, args'.swmr,
                             args'.o1, args'.o2, args'.swmrOK)
       /\ (last'.op = "open" /\ last'.result = "ValueError") =>
            /\ last'.nunder = 0
            /\ _NOPEN' = _NOPEN /\ env' = env /\ files' = files]_vars

C20_Witness ==
    /\ args.called /\ args.mode = "rw" /\ last.result = "ValueError"
    /\ last.nopen0 = 1 /\ _NOPEN = 1 /\ env = "TRUE"

(***************************************************************************)
(* Properties of File.__init__ against a file held by another process      *)
(***************************************************************************)
\* C17 (as stated): a read with swmr unspecified of a file another process
\* holds for writing succeeds through the SWMR fallback when the writer is
\* in SWMR mode, and fails with the error of the first underlying open when
\* it is not.
C17_ReadAgainstWriterAsStated ==
    (args.called /\ last.op = "open" /\ args.mode \in {"None", "r"}
        /\ args.swmr = "None" /\ other.held /\ other.mode # "r") =>
        IF other.swmr
        THEN last.result = "ok" /\ last.nunder = 2
        ELSE last.result = "OSError" /\ last.nunder = 1 /\ last.msg = args.o1

\* C17 (amended): such a read succeeds through the SWMR fallback (the
\* second underlying open, made with swmr = True) when the writer is in SWMR
\* mode; when it is not, the read succeeds at the first underlying open with
\* locking at its default (off), and fails with the error of that open only
\* when the reader asked for locking.
C17_ReadAgainstWriter ==
    (args.called /\ last.op = "open" /\ args.mode \in {"None", "r"}
        /\ args.swmr = "None" /\ other.held /\ other.mode # "r") =>
        IF other.swmr
        THEN last.result = "ok" /\ last.nunder = 2
        ELSE IF args.enable_file_locking = "None"
        THEN last.result = "ok" /\ last.nunder = 1
        ELSE /\ last.result = "OSError" /\ last.nunder = 1
             /\ last.msg = args.o1 /\ last.msg = "unable_to_lock"

C17_Witness ==
    /\ args.called /\ last.op = "open" /\ args.mode = "r"
    /\ args.swmr = "None" /\ other.held /\ other.mode = "a" /\ other.swmr
    /\ last.result = "ok" /\ last.nunder = 2

\* C18: with default options in this process, while the other process holds
\* the file with locking enabled an append open fails with OSError and a
\* read open succeeds; while the other process is a reader without locking
\* both succeed.
C18_CrossProcessModes ==
    (args.called /\ last.op = "open" /\ other.held
        /\ args.enable_file_locking = "None" /\ args.swmr = "None") =>
        IF other.locking
        THEN /\ args.mode = "a" => last.result = "OSError"
             /\ args.mode \in {"None", "r"} => last.result = "ok"
        ELSE last.result = "ok"

C18_Witness ==
    /\ args.called /\ last.op = "open" /\ args.mode = "a"
    /\ args.enable_file_locking = "None"
    /\ other.held /\ other.mode = "r" /\ other.locking
    /\ last.result = "OSError" /\ last.msg = "unable_to_lock"

(***************************************************************************)
(* Further properties of the retry decorator                               *)
(***************************************************************************)
\* C24: a call in the single-value shape (context = False) has, when it
\* returns, invoked the operation at least once and hands the caller the
\* operation's result value.
C24_ValueShapeRunsAtCall ==
    (~call.context /\ call.got # "nothing") =>
        (call.got = "value" /\ call.attempts >= 1
            /\ call.result = call.mvalue)

\* C25: in the scoped shape, once a resource is handed to the caller the
\* operation is not invoked again, and an exception raised in the caller's
\* block ends the call as that same exception, with no new handle opened.
C25_BlockExceptionPropagates ==
    call.thrown =>
        /\ call.pc = "raised" /\ call.raised_by = "block"
        /\ call.raised = call.lasterr
        /\ call.attempts = call.nfail + 1
        /\ call.f = 0

\* C27: a File(...) that raises OSError from the underlying open while the
\* counter is zero leaves the counter at zero and the ambient setting as it
\* was before the call.
C27_FailedOpenKeepsSetting ==
    (last.op = "open" /\ last.result = "OSError" /\ last.nopen0 = 0) =>
        (_NOPEN = 0 /\ env = last.envb)

\* C28: a File(...) rejected with the conflict error makes no underlying
\* open and leaves the counter, the ambient setting, every restore point
\* and the handles that are open as they were.
C28_ConflictChangesNothing ==
    [][(last'.op = "open" /\ last'.result = "RuntimeError") =>
        /\ last'.nunder = 0
        /\ _NOPEN' = _NOPEN /\ env' = env /\ files' = files]_vars

C28_Witness ==
    /\ last.op = "open" /\ last.result = "RuntimeError"
    /\ last.enable = "False" /\ env = "TRUE" /\ _NOPEN = 1
    /\ NumOpen(files) = 1 /\ files[1]._HDF5_FILE_LOCKING = "None"

C26_CallLeavesNoTrace ==
    LET own == {i \in OpenSet(files) : i > call.base}
    IN  call.pc # "idle" =>
            /\ Cardinality(own) <= 1
            /\ (call.pc = "raised" /\ call.raised_by \in {"engine", "operation"})
                  => /\ own = {} /\ _NOPEN = call.nopen_c
                     /\ call.env_c \in {"None", "TRUE", "FALSE"}
                          => env = call.env_c
                     /\ _get_locking_env(env) = _get_locking_env(call.env_c)

(***************************************************************************)
(* Properties of the version bound of the underlying opens                  *)
(***************************************************************************)
\* C30: the second underlying open of File(...), the SWMR fallback, is made
\* with swmr = True and libver = "latest" in every case, also when the
\* caller passed an explicit libver other than "latest".
C30_FallbackForcesLatest ==
    args.fallback => (args.swmr2 = "True" /\ args.libver2 = "latest")

(***************************************************************************)
(* Properties of the item functions                                        *)
(***************************************************************************)
\* the step is an attempt of a call of fn in which the file was opened and
\* the method ran
ItemAttempted(fn) ==
    /\ item'.fn = fn /\ call.pc = "loop"
    /\ call'.attempts = call.attempts + 1 /\ item'.ran

\* C21: open_item with validate None yields the item in the first attempt
\* that finds it, whatever it holds; with a validator an attempt that finds
\* the item invalid is retried and the first attempt that finds it valid
\* yields it; the call otherwise ends with HDF5TimeoutError, only past the
\* deadline and without having yielded; with default_validate an item for
\* which "end_time" in h5item is not True is never yielded.
C21_OpenItemYields ==
    [][/\ (ItemAttempted("open_item") /\ item'.look.exc = "None") =>
            IF item'.validate = "None" \/ item'.look.h5item.contains = "True"
            THEN /\ call'.pc = "block" /\ call'.handed # 0
                 /\ item'.h5item = item'.look.h5item
            ELSE /\ call'.pc = "wait" /\ call'.exception = "HDF5RetryError"
                 /\ item'.h5item = NoItem
       /\ (item'.fn = "open_item" /\ call'.raised = "HDF5TimeoutError") =>
            /\ now' - call'.t0 > call'.timeout /\ call'.has_timeout
            /\ call'.got = "nothing"
       /\ (item'.fn = "open_item" /\ item'.validate = "default_validate"
                /\ call'.got = "value") =>
            item'.h5item.contains = "True"]_vars

C21_Witness ==
    /\ item.fn = "open_item" /\ item.validate = "default_validate"
    /\ call.pc = "block" /\ call.attempts = 3 /\ call.nfail = 2
    /\ call.exception = "HDF5RetryError"
    /\ item.h5item = [name |-> 1, contains |-> "True"]

\* C22: in open_item a lookup that finds the item absent under an existing
\* parent is retried, and a lookup that finds the parent group missing is
\* raised at once.
C22_AbsentItemIsRetried ==
    [][(ItemAttempted("open_item") /\ item'.look.absent # "no") =>
            IF item'.look.absent = "item"
            THEN call'.pc = "wait" /\ call'.exception = item'.look.exc
            ELSE /\ call'.pc = "raised" /\ call'.raised = item'.look.exc
                 /\ call'.raised_by = "operation"]_vars

\* C23: an attempt of open_top_level_items whose enumeration completes
\* yields the children of the root it found, in their order, that satisfy
\* validate (all of them when validate is None), also when some child is
\* not valid; an attempt whose enumeration raises yields nothing: it is
\* retried as a whole when the wrapper keeps the exception, and ends the
\* call with that exception (a definitive failure) otherwise.
C23_TopLevelItemsSnapshot ==
    [][ItemAttempted("open_top_level_items") =>
            LET keep(c) == item'.validate = "None" \/ c.contains = "True"
            IN  IF item'.root.exc = "None"
                THEN /\ call'.pc = "block" /\ call'.handed # 0
                     /\ item'.h5items = SelectSeq(item'.root.children, keep)
                ELSE /\ item'.h5items = <<>> /\ call'.handed = 0
                     /\ IF item'.root.exc \in {"OSError", "KeyError"}
                        THEN /\ call'.pc = "wait"
                             /\ call'.exception = item'.root.exc
                        ELSE /\ call'.pc = "raised"
                             /\ call'.raised = item'.root.exc
                             /\ call'.raised_by = "operation"]_vars

C23_Witness ==
    /\ item.fn = "open_top_level_items" /\ item.validate = "default_validate"
    /\ call.pc = "block" /\ call.attempts = 2 /\ call.exception = "KeyError"
    /\ Len(item.root.children) = 2
    /\ item.root.children[1].contains = "False"
    /\ item.h5items = <<[name |-> 2, contains |-> "True"]>>

====
